---- MODULE Spec2Model ----
(***************************************************************************)
(* Model of the image-operation pipeline of rust-imagelib (src/src/lib.rs). *)
(*                                                                         *)
(* Three groups of state are modelled:                                     *)
(*   - the ImageOperator pipeline (new / apply_all_operations / get_image),*)
(*     with images abstracted to the trace of operations that built them;  *)
(*   - the ColorBlend operation on concrete 8-bit RGB / RGBA pixels;       *)
(*   - the DrawText operation (textwrap::fill followed by draw_text).      *)
(* Option<T> is modelled as a sequence of length 0 (None) or 1 (Some).     *)
(***************************************************************************)
EXTENDS Integers, Sequences, FiniteSets, TLC

VARIABLES
    operator,   \* Option<ImageOperator>: <<>> once `self` has been moved away
    ret,        \* what the last call on the pipeline returned
    log,        \* the operations `apply` was invoked on by the last call
    history,    \* the calls made on this pipeline instance, oldest first
    args,       \* the arguments ImageOperator::new was called with
    canvas,     \* ColorBlend: the buffer the operation is applied to
    color,      \* ColorBlend: the constant <<r, g, b>>
    blended,    \* ColorBlend: Option of the buffer apply returned
    text,       \* DrawText: the text of the operation
    max_width,  \* DrawText: Option<usize>
    font,       \* DrawText: the font input: whether it resolves, and its advance
    mid,        \* DrawText: the midpoint <<x, y>>
    text_height,\* DrawText: get_font_height as a fraction <<numerator, denominator>>
    fulltext,   \* DrawText: Option of the text handed to draw_text
    drawn,      \* DrawText: the draw_text_mut calls made, in order
    text_ret    \* DrawText: "none", "ok" or the error apply returned

pvars == <<operator, ret, log, history, args>>
bvars == <<canvas, color, blended>>
tvars == <<text, max_width, font, mid, text_height, fulltext, drawn, text_ret>>
vars == <<pvars, bvars, tvars>>

----------------------------------------------------------------------------
(* Bounds of the pipeline model *)
MaxOps == 2         \* longest ImageOperator.operations list
MaxInputOps == 1    \* longest ImageInput.operations list

None == <<>>
Some(x) == <<x>>

(* Result<T, Errors> *)
Ok(v) == [ok |-> TRUE, val |-> <<v>>, err |-> ""]
Err(e) == [ok |-> FALSE, val |-> <<>>, err |-> e]

SeqsUpTo(S, n) == UNION {[1..k -> S] : k \in 0..n}

----------------------------------------------------------------------------
(* lib.rs: filter_from_str *)
filter_from_str_lenient(filter) ==
    IF filter \in {"Nearest", "Triangle", "CatmullRom", "Gaussian", "Lanczos3"}
    THEN Ok(filter)
    ELSE Ok("Nearest")

filter_from_str(filter) ==
    CASE filter = "Nearest" -> Ok("Nearest")
      [] filter = "Triangle" -> Ok("Triangle")
      [] filter = "CatmullRom" -> Ok("CatmullRom")
      [] filter = "Gaussian" -> Ok("Gaussian")
      [] filter = "Lanczos3" -> Ok("Lanczos3")
      [] OTHER -> Err("InvalidResizeFilter")

(* lib.rs: the names new_image! is instantiated with *)
NewImageTypes ==
    {"RgbImage", "RgbaImage", "GrayImage", "GrayAlphaImage", "Rgb32FImage", "Rgba32FImage"}

(* An image is abstracted to where it came from and what was done to it. *)
Image(base) == [base |-> base, trace |-> <<>>]

(* lib.rs: new_image! *)
new_image(type_) ==
    IF type_ \in NewImageTypes THEN Ok(Image(type_)) ELSE Err("InvalidImageType")

(* lib.rs: ImageInputType::get_image (Color and New variants) *)
ImageInputType_get_image(self) ==
    CASE self.tag = "Color" -> Ok(Image("Color"))
      [] self.tag = "New" -> new_image(self.type_)

(* The effect of a successful operation on the abstract image: the operation *)
(* (and the resolved layer it composited, if any) is appended to the trace.  *)
Applied(image, op, layer) ==
    [image EXCEPT !.trace = Append(@,
        [tag |-> op.tag, filter |-> op.filter, mode |-> op.mode, layer |-> layer])]

(* The log entry for the resolution of a source *)
Resolve(type) == [tag |-> "resolve", filter |-> type.tag, mode |-> type.type_, input |-> None]

RECURSIVE apply(_, _), ImageInput_get_image(_), FoldOperations(_, _)

(* The loop `for op in operations.into_iter() { image = op.apply(image)?; }` *)
(* shared by ImageInput::get_image and apply_all_operations.  `log` lists    *)
(* the operations apply was invoked on.                                      *)
FoldOperations_keep_going(ops, image) ==
    IF ops = <<>> THEN [res |-> Ok(image), log |-> <<>>]
    ELSE LET r == apply(Head(ops), image)
             rest == FoldOperations(Tail(ops), IF r.ok THEN r.val[1] ELSE image)
         IN  [res |-> IF r.ok THEN rest.res ELSE r, log |-> <<Head(ops)>> \o rest.log]

FoldOperations(ops, image) ==
    IF ops = <<>> THEN [res |-> Ok(image), log |-> <<>>]
    ELSE LET r == apply(Head(ops), image)
         IN  IF ~r.ok THEN [res |-> r, log |-> <<Head(ops)>>]
             ELSE LET rest == FoldOperations(Tail(ops), r.val[1])
                  IN  [res |-> rest.res, log |-> <<Head(ops)>> \o rest.log]

(* lib.rs: ImageInput::get_image *)
ImageInput_get_image_no_ops(self) ==
    LET src == ImageInputType_get_image(self.image_input_type)
    IN  [res |-> src, log |-> <<Resolve(self.image_input_type)>>]

ImageInput_get_image(self) ==
    LET src == ImageInputType_get_image(self.image_input_type)
    IN  IF ~src.ok THEN [res |-> src, log |-> <<Resolve(self.image_input_type)>>]
        ELSE LET out == FoldOperations(self.operations, src.val[1])
             IN  [res |-> out.res, log |-> <<Resolve(self.image_input_type)>> \o out.log]

(* lib.rs: ImageOperation::apply *)
apply(self, image) ==
    CASE self.tag = "Resize" ->
            LET f == filter_from_str(self.filter)
            IN  IF f.ok THEN Ok(Applied(image, self, None)) ELSE f
      [] self.tag \in {"Overlay", "Tile"} ->
            LET layer == ImageInput_get_image(self.input[1]).res
            IN  IF layer.ok THEN Ok(Applied(image, self, layer.val)) ELSE layer
      [] self.tag = "DrawText" ->
            IF self.filter = "badfont" THEN Err("InvalidFont")
            ELSE Ok(Applied(image, self, None))
      [] OTHER -> Ok(Applied(image, self, None))

(* lib.rs: ImageOperator::new *)
ImageOperator_new(image_input, operations) ==
    [image_input |-> Some(image_input), operations |-> operations, image |-> None]

(* lib.rs: ImageOperator::apply_all_operations.  `self` is taken by value: *)
(* the result is either a new ImageOperator or an error, never the old one. *)
apply_all_operations_keeps_input(self) ==
    IF self.image_input = None
    THEN [res |-> Err("InputImageAlreadyUsed"), log |-> <<>>]
    ELSE LET src == ImageInput_get_image(self.image_input[1])
         IN  IF ~src.res.ok THEN src
             ELSE LET out == FoldOperations(self.operations, src.res.val[1])
                  IN  IF ~out.res.ok THEN [res |-> out.res, log |-> src.log \o out.log]
                      ELSE [res |-> Ok([image_input |-> self.image_input,
                                        operations |-> <<>>,
                                        image |-> out.res.val]),
                            log |-> src.log \o out.log]

apply_all_operations(self) ==
    IF self.image_input = None
    THEN [res |-> Err("InputImageAlreadyUsed"), log |-> <<>>]
    ELSE LET src == ImageInput_get_image(self.image_input[1])
         IN  IF ~src.res.ok THEN src
             ELSE LET out == FoldOperations(self.operations, src.res.val[1])
                  IN  IF ~out.res.ok THEN [res |-> out.res, log |-> src.log \o out.log]
                      ELSE [res |-> Ok([image_input |-> None,
                                        operations |-> <<>>,
                                        image |-> out.res.val]),
                            log |-> src.log \o out.log]

(* lib.rs: ImageOperator::get_image *)
ImageOperator_get_image_none(self) == None

ImageOperator_get_image(self) == self.image

----------------------------------------------------------------------------
(* The inputs the pipeline is built from *)
Op(tag, filter, mode, input) ==
    [tag |-> tag, filter |-> filter, mode |-> mode, input |-> input]

InputType(tag, type_) == [tag |-> tag, type_ |-> type_]

Input(type, ops) == [image_input_type |-> type, operations |-> ops]

Modes == {"Fit", "Exact", "Fill"}

SimpleOps ==
    { Op("Invert", "", "", None),
      Op("Resize", "Nearest", "Fit", None),
      Op("Resize", "Bogus", "Exact", None),
      Op("DrawText", "badfont", "", None) }

InputTypes == { InputType("Color", ""), InputType("New", "RgbaImage"), InputType("New", "Bogus") }

(* Inputs nested in an Overlay or a Tile: a colour with operations that    *)
(* succeed, a colour whose last operation fails, and a source that fails.   *)
LayerInputs ==
    { Input(InputType("Color", ""), ops) :
        ops \in SeqsUpTo({Op("Invert", "", "", None)}, MaxInputOps) }
    \cup { Input(InputType("Color", ""), Append(ops, Op("Resize", "Bogus", "Fill", None))) :
        ops \in SeqsUpTo({Op("Invert", "", "", None)}, MaxInputOps - 1) }
    \cup { Input(InputType("New", "Bogus"), <<>>) }

Ops ==
    SimpleOps \cup { Op(tag, "", "", Some(i)) : tag \in {"Overlay", "Tile"}, i \in LayerInputs }

SourceInputs == { Input(t, ops) : t \in InputTypes, ops \in SeqsUpTo(SimpleOps, MaxInputOps) }

NoRet == [call |-> "none", ok |-> TRUE, err |-> "", image |-> None]

----------------------------------------------------------------------------
(* The pipeline, the blend and the text parts at rest *)
PipelineIdle ==
    /\ args = [image_input |-> Input(InputType("Color", ""), <<>>), operations |-> <<>>]
    /\ operator = None
    /\ ret = NoRet
    /\ log = <<>>
    /\ history = <<>>

BlendIdle ==
    /\ canvas = [kind |-> "Rgb8", w |-> 0, h |-> 0, px |-> <<>>]
    /\ color = <<0, 0, 0>>
    /\ blended = None

TextIdle ==
    /\ text = <<>>
    /\ max_width = None
    /\ font = [ok |-> TRUE, advance |-> <<1, 1>>]
    /\ mid = <<0, 0>>
    /\ text_height = <<1, 1>>
    /\ fulltext = None
    /\ drawn = <<>>
    /\ text_ret = "none"

Init ==
    /\ BlendIdle
    /\ TextIdle
    /\ \E i \in SourceInputs, ops \in SeqsUpTo(Ops, MaxOps) :
          /\ args = [image_input |-> i, operations |-> ops]
          /\ operator = Some(ImageOperator_new(i, ops))
    /\ ret = NoRet
    /\ log = <<>>
    /\ history = <<>>

(* operator = operator.apply_all_operations() *)
ApplyAllOperations ==
    /\ operator # None
    /\ LET r == apply_all_operations(operator[1])
       IN  /\ operator' = r.res.val
           /\ ret' = [call |-> "apply_all_operations", ok |-> r.res.ok,
                      err |-> r.res.err, image |-> None]
           /\ log' = r.log
           /\ history' = Append(history, IF r.res.ok THEN "applied" ELSE "failed")
    /\ UNCHANGED <<args, bvars, tvars>>

(* operator.get_image() *)
GetImage ==
    /\ operator # None
    /\ ret' = [call |-> "get_image", ok |-> TRUE, err |-> "",
               image |-> ImageOperator_get_image(operator[1])]
    /\ operator' = None
    /\ log' = <<>>
    /\ history' = Append(history, "extracted")
    /\ UNCHANGED <<args, bvars, tvars>>

Next == ApplyAllOperations \/ GetImage

Spec == Init /\ [][Next]_vars

(* Pipelines of one New source and one Resize, over every name tried *)
FilterNamesTried ==
    {"Nearest", "Triangle", "CatmullRom", "Gaussian", "Lanczos3",
     "nearest", "Bogus", "", "Lanczos", "Nearest "}

TypeNamesTried == NewImageTypes \cup {"Bogus", "rgbimage", "", "ImageRgb8"}

InitNames ==
    /\ BlendIdle
    /\ TextIdle
    /\ \E t \in TypeNamesTried, f \in FilterNamesTried, m \in Modes :
          /\ args = [image_input |-> Input(InputType("New", t), <<>>),
                     operations |-> <<Op("Resize", f, m, None)>>]
          /\ operator = Some(ImageOperator_new(args.image_input, args.operations))
    /\ ret = NoRet
    /\ log = <<>>
    /\ history = <<>>

SpecNames == InitNames /\ [][Next]_vars

----------------------------------------------------------------------------
(* ColorBlend on 8-bit RGB and RGBA buffers.  A buffer is a kind, a width,  *)
(* a height and a function from <<x, y>> to the channels of the pixel.      *)

MaxW == 2           \* widest buffer blended

U8(n) == n % 256

(* image: GenericImageView::get_pixel of a DynamicImage yields Rgba<u8>; an *)
(* Rgb8 pixel is given full alpha.                                          *)
get_pixel(image, x, y) ==
    IF image.kind = "Rgb8" THEN image.px[<<x, y>>] \o <<255>> ELSE image.px[<<x, y>>]

(* image: GenericImage::put_pixel of a DynamicImage converts the Rgba<u8>   *)
(* to the pixel type of the buffer.                                         *)
put_pixel(image, x, y, pixel) ==
    [image EXCEPT !.px[<<x, y>>] = IF image.kind = "Rgb8" THEN SubSeq(pixel, 1, 3) ELSE pixel]

(* lib.rs: `pixel[i] / 2 + color[i] / 2` on u8 *)
blend_channel_sum_first(p, c) == U8(p + c) \div 2

blend_channel(p, c) == U8((p \div 2) + (c \div 2))

(* lib.rs: the closure run for one pixel *)
blend_pixel(pixel, rgb) ==
    [i \in 1..Len(pixel) |-> IF i <= 3 THEN blend_channel(pixel[i], rgb[i]) ELSE pixel[i]]

(* lib.rs: ImageOperation::apply, ColorBlend: every (x, y) of 0..w x 0..h   *)
(* is read, blended and written back; the pixels do not depend on each      *)
(* other, so the order of the two loops does not show.                      *)
RECURSIVE blend_all(_, _, _)
blend_all(image, rgb, todo) ==
    IF todo = {} THEN image
    ELSE LET xy == CHOOSE p \in todo : TRUE
         IN  blend_all(put_pixel(image, xy[1], xy[2],
                                 blend_pixel(get_pixel(image, xy[1], xy[2]), rgb)),
                       rgb, todo \ {xy})

apply_ColorBlend(image, rgb) ==
    blend_all(image, rgb, (0..(image.w - 1)) \X (0..(image.h - 1)))

(* The buffers blended: one whose channels run through 0..255 with the      *)
(* seed, and one in which every pixel is (c, c, c).                         *)
Buffer(kind, w, h, seed, uniform) ==
    [kind |-> kind, w |-> w, h |-> h,
     px |-> [xy \in (0..(w - 1)) \X (0..(h - 1)) |->
               [i \in 1..(IF kind = "Rgb8" THEN 3 ELSE 4) |->
                   IF uniform THEN (IF i <= 3 THEN seed ELSE U8(seed + 40))
                   ELSE U8(seed + 85 * (i - 1) + 31 * xy[1] + 57 * xy[2])]]]

Shapes == {<<"Rgb8", 1, 1>>, <<"Rgba8", MaxW, 1>>}

InitBlend ==
    /\ PipelineIdle
    /\ TextIdle
    /\ blended = None
    /\ \E shape \in Shapes, s \in 0..255 :
          \/ \E t \in 0..255 :
                /\ canvas = Buffer(shape[1], shape[2], shape[3], s, FALSE)
                /\ color = <<t, U8(t + 101), U8(t + 202)>>
          \/ /\ canvas = Buffer(shape[1], shape[2], shape[3], s, TRUE)
             /\ color = <<s, s, s>>

(* image = ImageOperation::ColorBlend{r, g, b}.apply(image) *)
ColorBlend ==
    /\ blended = None
    /\ blended' = Some(apply_ColorBlend(canvas, color))
    /\ UNCHANGED <<canvas, color, pvars, tvars>>

NextBlend == ColorBlend

SpecBlend == InitBlend /\ [][NextBlend]_vars

----------------------------------------------------------------------------
(* DrawText.  A text is a sequence of one-character strings.                *)

MaxLen == 5         \* longest text drawn
MaxWidth == 3       \* largest max_width

NL == "\n"
SP == " "
Letters == {"a", "b"}

Range(s) == {s[k] : k \in 1..Len(s)}

(* The quotient of a / b rounded toward zero: an `as i32` cast of an f32,   *)
(* and the division of i32.                                                 *)
TruncDiv(a, b) == IF a >= 0 THEN a \div b ELSE -((-a) \div b)

(* core: str::split(sep): the pieces between separators, the last included  *)
RECURSIVE split_from(_, _, _)
split_from(s, sep, cur) ==
    IF s = <<>> THEN <<cur>>
    ELSE IF Head(s) = sep THEN <<cur>> \o split_from(Tail(s), sep, <<>>)
         ELSE split_from(Tail(s), sep, Append(cur, Head(s)))

split(s, sep) == split_from(s, sep, <<>>)

(* core: str::lines(): as split on the newline, but a final empty piece is  *)
(* not a line.                                                              *)
RECURSIVE lines_from(_, _)
lines_from(s, cur) ==
    IF s = <<>> THEN (IF cur = <<>> THEN <<>> ELSE <<cur>>)
    ELSE IF Head(s) = NL THEN <<cur>> \o lines_from(Tail(s), <<>>)
         ELSE lines_from(Tail(s), Append(cur, Head(s)))

lines(s) == lines_from(s, <<>>)

RECURSIVE join(_, _)
join(pieces, sep) ==
    IF pieces = <<>> THEN <<>>
    ELSE IF Len(pieces) = 1 THEN pieces[1]
         ELSE pieces[1] \o <<sep>> \o join(Tail(pieces), sep)

(* textwrap: the words of a line whose words are separated by single        *)
(* spaces: each word carries the width of the whitespace after it.          *)
find_words(line) ==
    IF line = <<>> THEN <<>>
    ELSE LET ws == split(line, SP)
         IN  [k \in 1..Len(ws) |-> [word |-> ws[k], whitespace |-> IF k < Len(ws) THEN 1 ELSE 0]]

(* textwrap: break_words: a word wider than the line is cut into pieces of  *)
(* the line width; the whitespace stays with the last piece.                *)
RECURSIVE break_apart(_, _)
break_apart(w, width) ==
    IF Len(w.word) <= width THEN <<w>>
    ELSE <<[word |-> SubSeq(w.word, 1, width), whitespace |-> 0]>>
            \o break_apart([w EXCEPT !.word = SubSeq(@, width + 1, Len(@))], width)

RECURSIVE break_words(_, _)
break_words(words, width) ==
    IF words = <<>> THEN <<>>
    ELSE break_apart(Head(words), width) \o break_words(Tail(words), width)

(* textwrap: wrap_first_fit: a word that does not fit starts a new line,    *)
(* unless the line is still empty.                                          *)
RECURSIVE wrap_first_fit(_, _, _, _)
wrap_first_fit(words, line_width, cur, width) ==
    IF words = <<>> THEN <<cur>>
    ELSE LET w == Head(words)
         IN  IF width + Len(w.word) > line_width /\ cur # <<>>
             THEN <<cur>> \o wrap_first_fit(Tail(words), line_width, <<w>>,
                                            Len(w.word) + w.whitespace)
             ELSE wrap_first_fit(Tail(words), line_width, Append(cur, w),
                                 width + Len(w.word) + w.whitespace)

(* textwrap: the text of a wrapped line: its words with their whitespace,   *)
(* the whitespace of the last one dropped.                                  *)
RECURSIVE line_text(_)
line_text(words) ==
    IF words = <<>> THEN <<>>
    ELSE Head(words).word
            \o (IF Len(words) > 1 /\ Head(words).whitespace = 1 THEN <<SP>> ELSE <<>>)
            \o line_text(Tail(words))

(* textwrap: wrap: every line of the text is wrapped on its own *)
RECURSIVE wrap_lines(_, _)
wrap_lines(ls, width) ==
    IF ls = <<>> THEN <<>>
    ELSE LET wrapped == wrap_first_fit(break_words(find_words(Head(ls)), width), width, <<>>, 0)
         IN  [k \in 1..Len(wrapped) |-> line_text(wrapped[k])] \o wrap_lines(Tail(ls), width)

wrap(s, width) == wrap_lines(split(s, NL), width)

RECURSIVE trim_end(_)
trim_end(s) ==
    IF s # <<>> /\ s[Len(s)] = SP THEN trim_end(SubSeq(s, 1, Len(s) - 1)) ELSE s

(* textwrap: fill: a short text without a newline is returned as it is,     *)
(* any other has its wrapped lines joined by newlines.                      *)
fill(s, width) ==
    IF Len(s) < width /\ NL \notin Range(s) THEN trim_end(s)
    ELSE join(wrap(s, width), NL)

(* lib.rs: measure_line_width for a font whose glyphs all advance by the    *)
(* same amount: the fraction <<numerator, denominator>>.                    *)
measure_line_width(f, line) == <<Len(line) * f.advance[1], f.advance[2]>>

(* lib.rs: draw_text: the draw_text_mut calls it makes, and whether the     *)
(* u32 subtraction `line_count - 1` was evaluated with line_count = 0.      *)
draw_text_renumbering(f, fulltext_, height, mid_) ==
    LET ls == SelectSeq(lines(fulltext_), LAMBDA l : l # <<>>)
        line_count == Len(ls)
    IN  [draws |-> [k \in 1..Len(ls) |->
                      LET text_width == measure_line_width(f, ls[k])
                      IN  [x |-> mid_[1] - TruncDiv(TruncDiv(text_width[1], text_width[2]), 2),
                           y |-> mid_[2] + TruncDiv((2 * (k - 1) - (line_count - 1)) * height[1],
                                                    2 * height[2]),
                           text |-> ls[k]]],
         underflow |-> FALSE]

draw_text(f, fulltext_, height, mid_) ==
    LET ls == lines(fulltext_)
        line_count == Len(ls)
        kept == SelectSeq([k \in 1..Len(ls) |-> k], LAMBDA k : ls[k] # <<>>)
    IN  [draws |-> [j \in 1..Len(kept) |->
                      LET index == kept[j] - 1
                          text_width == measure_line_width(f, ls[kept[j]])
                      IN  [x |-> mid_[1] - TruncDiv(TruncDiv(text_width[1], text_width[2]), 2),
                           y |-> mid_[2] + TruncDiv((2 * index - (line_count - 1)) * height[1],
                                                    2 * height[2]),
                           text |-> ls[kept[j]]]],
         underflow |-> kept # <<>> /\ line_count = 0]

(* lib.rs: ImageOperation::apply, DrawText: `if let Some(width) = max_width *)
(* { text = textwrap::fill(&text, width); }`                                *)
wrap_text_unless_newline(s, width) ==
    IF width # None /\ NL \notin Range(s) THEN fill(s, width[1]) ELSE s

wrap_text(s, width) == IF width # None THEN fill(s, width[1]) ELSE s

Texts == SeqsUpTo(Letters \cup {SP, NL}, MaxLen)

(* The texts whose words are separated by single spaces *)
SingleSpaced(s) ==
    \A l \in Range(split(s, NL)) :
        /\ l # <<>> => (l[1] # SP /\ l[Len(l)] # SP)
        /\ \A k \in 1..(Len(l) - 1) : ~(l[k] = SP /\ l[k + 1] = SP)

Fonts == {[ok |-> TRUE, advance |-> <<7, 2>>], [ok |-> FALSE, advance |-> <<1, 1>>]}

InitText ==
    /\ PipelineIdle
    /\ BlendIdle
    /\ text \in Texts
    /\ max_width \in {None} \cup {Some(w) : w \in 1..MaxWidth}
    /\ max_width # None => SingleSpaced(text)
    /\ font \in Fonts
    /\ mid \in {<<0, 0>>, <<10, -3>>}
    /\ text_height \in {<<5, 2>>, <<13, 4>>}
    /\ fulltext = None
    /\ drawn = <<>>
    /\ text_ret = "none"

(* image = ImageOperation::DrawText{..}.apply(image) *)
DrawText ==
    /\ text_ret = "none"
    /\ LET wrapped == wrap_text(text, max_width)
       IN  IF ~font.ok
           THEN /\ text_ret' = "InvalidFont"
                /\ UNCHANGED <<fulltext, drawn>>
           ELSE LET d == draw_text(font, wrapped, text_height, mid)
                IN  /\ fulltext' = Some(wrapped)
                    /\ drawn' = d.draws
                    /\ text_ret' = IF d.underflow THEN "underflow" ELSE "ok"
    /\ UNCHANGED <<text, max_width, font, mid, text_height, pvars, bvars>>

NextText == DrawText

SpecText == InitText /\ [][NextText]_vars

----------------------------------------------------------------------------
(* What the claims are stated over, written from the arguments of new       *)
(* without going through the model of apply.                                *)

(* The error a source type yields, "" if it resolves *)
TypeFailure(t) ==
    IF t.tag = "New" /\ t.type_ \notin NewImageTypes THEN "InvalidImageType" ELSE ""

(* The error an operation without a nested input yields, "" if it succeeds *)
SimpleFailure(op) ==
    IF op.tag = "Resize" /\ op.filter \notin {"Nearest", "Triangle", "CatmullRom", "Gaussian", "Lanczos3"}
    THEN "InvalidResizeFilter"
    ELSE IF op.tag = "DrawText" /\ op.filter = "badfont" THEN "InvalidFont" ELSE ""

(* The first non-empty string of a sequence, "" if there is none *)
FirstFailure(fs) ==
    IF \A k \in 1..Len(fs) : fs[k] = "" THEN ""
    ELSE fs[CHOOSE k \in 1..Len(fs) : fs[k] # "" /\ \A j \in 1..(k - 1) : fs[j] = ""]

(* The error resolving a nested input yields (its operations are simple) *)
LayerFailure(i) ==
    FirstFailure(<<TypeFailure(i.image_input_type)>>
                 \o [k \in 1..Len(i.operations) |-> SimpleFailure(i.operations[k])])

OpFailure(op) == IF op.input # None THEN LayerFailure(op.input[1]) ELSE SimpleFailure(op)

(* The steps of the first apply_all_operations, in the order claimed, and   *)
(* the error of each.                                                       *)
Steps ==
    <<Resolve(args.image_input.image_input_type)>>
        \o args.image_input.operations \o args.operations

StepFailures ==
    <<TypeFailure(args.image_input.image_input_type)>>
        \o [k \in 1..Len(args.image_input.operations) |-> SimpleFailure(args.image_input.operations[k])]
        \o [k \in 1..Len(args.operations) |-> OpFailure(args.operations[k])]

FirstFailing ==
    IF FirstFailure(StepFailures) = "" THEN 0
    ELSE CHOOSE k \in 1..Len(StepFailures) :
            StepFailures[k] # "" /\ \A j \in 1..(k - 1) : StepFailures[j] = ""

FirstApplyReturned == ret.call = "apply_all_operations" /\ Len(history) = 1

AppliedBefore == \E k \in 1..(Len(history) - 1) : history[k] = "applied"

(* The image a nested input resolves to *)
LayerImage(i) ==
    [base |-> IF i.image_input_type.tag = "Color" THEN "Color" ELSE i.image_input_type.type_,
     trace |-> [k \in 1..Len(i.operations) |->
                   [tag |-> i.operations[k].tag, filter |-> i.operations[k].filter,
                    mode |-> i.operations[k].mode, layer |-> None]]]

(* The final buffer: the source, then the source's operations, then the     *)
(* operator's, each Overlay / Tile carrying its own resolved layer.         *)
ExpectedImage ==
    LET all == args.image_input.operations \o args.operations
    IN  [base |-> IF args.image_input.image_input_type.tag = "Color" THEN "Color"
                  ELSE args.image_input.image_input_type.type_,
         trace |-> [k \in 1..Len(all) |->
                      [tag |-> all[k].tag, filter |-> all[k].filter, mode |-> all[k].mode,
                       layer |-> IF all[k].input = None THEN None
                                 ELSE Some(LayerImage(all[k].input[1]))]]]

----------------------------------------------------------------------------
(* C1: once apply_all_operations has succeeded on a pipeline, a further     *)
(* apply_all_operations on the pipeline it returned fails with              *)
(* InputImageAlreadyUsed, and it does so before resolving a source or       *)
(* applying an operation (nothing is logged, no pipeline is returned).      *)
SingleUse ==
    (ret.call = "apply_all_operations" /\ AppliedBefore)
        => /\ ~ret.ok
           /\ ret.err = "InputImageAlreadyUsed"
           /\ log = <<>>
           /\ operator = None

SingleUseWitness ==
    /\ history = <<"applied", "failed">>
    /\ ret.err = "InputImageAlreadyUsed"

(* C2: a pipeline holds an unresolved source or a resolved buffer, never    *)
(* both; after a successful apply_all_operations the source slot and the    *)
(* operation list are empty and the final buffer is stored.                 *)
SourceXorBuffer ==
    operator # None =>
        /\ (operator[1].image_input # None) # (operator[1].image # None)
        /\ (ret.call = "apply_all_operations" /\ ret.ok) =>
              /\ operator[1].image_input = None
              /\ operator[1].operations = <<>>
              /\ operator[1].image # None
              /\ Len(operator[1].image[1].trace)
                    = Len(args.image_input.operations) + Len(args.operations)

SourceXorBufferWitness ==
    /\ operator # None
    /\ ret.call = "apply_all_operations"
    /\ ret.ok
    /\ operator[1].image # None
    /\ Len(operator[1].image[1].trace) >= 2

(* C3: apply_all_operations resolves the source and applies the operations  *)
(* in list order; the first failing step's error is what the caller gets,   *)
(* no later operation is applied and no pipeline is returned.               *)
LeftToRightAbortOnFirstError ==
    FirstApplyReturned =>
        IF FirstFailing = 0
        THEN /\ ret.ok
             /\ log = Steps
             /\ operator # None
             /\ \A k \in 1..(Len(Steps) - 1) :
                    operator[1].image[1].trace[k].tag = Steps[k + 1].tag
        ELSE /\ ~ret.ok
             /\ ret.err = StepFailures[FirstFailing]
             /\ log = SubSeq(Steps, 1, FirstFailing)
             /\ operator = None

LeftToRightWitness ==
    /\ FirstApplyReturned
    /\ FirstFailing > 1
    /\ FirstFailing < Len(Steps)
    /\ ~ret.ok
    /\ \E k \in (FirstFailing + 1)..Len(Steps) : StepFailures[k] # ""
                                                   /\ StepFailures[k] # ret.err

(* C4 as amended: get_image never returns an error; it returns the final    *)
(* buffer exactly when the pipeline has been applied successfully and       *)
(* nothing when it never was; it takes the pipeline by value, so after it   *)
(* there is no pipeline left to extract from again.                         *)
ExtractionNeverFails ==
    ret.call = "get_image" =>
        /\ ret.ok
        /\ ret.err = ""
        /\ (ret.image # None) <=> AppliedBefore
        /\ ret.image # None => ret.image[1] = ExpectedImage
        /\ operator = None

ExtractionWitness ==
    /\ ret.call = "get_image"
    /\ ret.image # None
    /\ history = <<"applied", "extracted">>

(* C4 as stated: extraction leaves the pipeline as it was, so that it can   *)
(* be attempted a second time.                                              *)
ExtractionLeavesPipeline ==
    [][ret'.call = "get_image" =>
          /\ ret'.ok
          /\ (ret'.image # None) <=> (\E k \in 1..Len(history) : history[k] = "applied")
          /\ operator' = operator]_vars

(* C10: the source's own operations are applied to the source first, then   *)
(* the operator's; the input nested in an Overlay or a Tile is resolved     *)
(* with its own operations applied to the layer only before it is           *)
(* composited, and a failure inside it aborts the pipeline with that error  *)
(* and without a canvas.                                                    *)
EffectiveOrder ==
    FirstApplyReturned =>
        /\ ret.ok => operator[1].image = Some(ExpectedImage)
        /\ \A k \in 1..Len(args.operations) :
              (/\ FirstFailing = 1 + Len(args.image_input.operations) + k
               /\ args.operations[k].input # None)
                  => /\ ~ret.ok
                     /\ ret.err = LayerFailure(args.operations[k].input[1])
                     /\ operator = None

EffectiveOrderWitness ==
    /\ FirstApplyReturned
    /\ ret.ok
    /\ Len(args.image_input.operations) >= 1
    /\ \E k \in 1..Len(args.operations) :
          /\ args.operations[k].input # None
          /\ Len(args.operations[k].input[1].operations) >= 1
          /\ k < Len(args.operations)

EffectiveOrderFailureWitness ==
    /\ FirstApplyReturned
    /\ ~ret.ok
    /\ \E k \in 1..Len(args.operations) :
          /\ FirstFailing = 1 + Len(args.image_input.operations) + k
          /\ args.operations[k].input # None
          /\ ret.err = "InvalidResizeFilter"

(* C5: a Resize whose filter is not exactly one of the five names fails     *)
(* with InvalidResizeFilter in every mode and returns no pipeline; a New    *)
(* source whose type_ is not one of the six names fails with                *)
(* InvalidImageType.                                                        *)
UnknownNamesRejected ==
    (FirstApplyReturned /\ args.image_input.image_input_type.tag = "New") =>
        /\ args.image_input.image_input_type.type_
              \notin {"RgbImage", "RgbaImage", "GrayImage", "GrayAlphaImage",
                      "Rgb32FImage", "Rgba32FImage"}
              => (~ret.ok /\ ret.err = "InvalidImageType" /\ operator = None)
        /\ \A k \in 1..Len(args.operations) :
              (/\ FirstFailing = 1 + Len(args.image_input.operations) + k
               /\ args.operations[k].tag = "Resize"
               /\ args.operations[k].mode \in Modes)
                  => (~ret.ok /\ ret.err = "InvalidResizeFilter" /\ operator = None)
        /\ (\A k \in 1..Len(args.operations) :
               /\ args.operations[k].tag = "Resize"
               /\ args.operations[k].filter
                     \notin {"Nearest", "Triangle", "CatmullRom", "Gaussian", "Lanczos3"})
           /\ args.operations # <<>>
              => ~ret.ok

UnknownNamesWitness ==
    /\ FirstApplyReturned
    /\ args.image_input.image_input_type.type_ = "Rgba32FImage"
    /\ args.operations = <<Op("Resize", "nearest", "Fill", None)>>
    /\ ret.err = "InvalidResizeFilter"

(* C6: ColorBlend makes each of the first three channels of every pixel     *)
(* floor(original / 2) + floor(constant / 2), a value that fits 8 bits,     *)
(* leaves the fourth channel as it was and keeps the dimensions.            *)
ColorBlendFormula ==
    blended # None =>
        LET out == blended[1]
        IN  /\ out.kind = canvas.kind
            /\ out.w = canvas.w
            /\ out.h = canvas.h
            /\ DOMAIN out.px = DOMAIN canvas.px
            /\ \A xy \in DOMAIN canvas.px :
                  /\ Len(out.px[xy]) = Len(canvas.px[xy])
                  /\ \A i \in 1..3 :
                        /\ out.px[xy][i] = (canvas.px[xy][i] \div 2) + (color[i] \div 2)
                        /\ out.px[xy][i] \in 0..255
                  /\ \A i \in 4..Len(canvas.px[xy]) : out.px[xy][i] = canvas.px[xy][i]

ColorBlendWitness ==
    /\ blended # None
    /\ canvas.kind = "Rgba8"
    /\ canvas.px[<<0, 0>>][1] = 255
    /\ color[1] = 255
    /\ blended[1].px[<<0, 0>>][1] = 254

UniformCase ==
    /\ blended # None
    /\ color[1] = color[2]
    /\ color[2] = color[3]
    /\ \A xy \in DOMAIN canvas.px : \A i \in 1..3 : canvas.px[xy][i] = color[1]

(* C7 as stated: blending a buffer whose pixels all equal (c, c, c) with    *)
(* the constant (c, c, c) leaves every channel unchanged.                   *)
BlendWithSelfIsFixedPoint ==
    UniformCase => blended[1] = canvas

(* C7 as amended: blending a buffer whose pixels all equal (c, c, c) with   *)
(* the constant (c, c, c) leaves every channel unchanged when c is even,    *)
(* and makes each of the first three channels c - 1 when c is odd; the      *)
(* fourth channel is unchanged either way.                                  *)
BlendWithSelfClearsLowBit ==
    UniformCase =>
        \A xy \in DOMAIN canvas.px :
            /\ \A i \in 1..3 :
                  blended[1].px[xy][i] = IF color[1] % 2 = 0 THEN color[1] ELSE color[1] - 1
            /\ \A i \in 4..Len(canvas.px[xy]) : blended[1].px[xy][i] = canvas.px[xy][i]

BlendWithSelfWitness ==
    /\ UniformCase
    /\ color[1] = 254
    /\ canvas.w = MaxW
    /\ blended[1] = canvas

----------------------------------------------------------------------------
(* The lines of the text handed to draw_text, told from the positions of    *)
(* its newlines.                                                            *)
Given == fulltext[1]

NewlinesAt == {p \in 1..Len(Given) : Given[p] = NL}

NthNewline(n) == CHOOSE p \in NewlinesAt : Cardinality({q \in NewlinesAt : q < p}) = n - 1

(* N: one line per newline, and one more for what follows the last newline  *)
LineCount ==
    Cardinality(NewlinesAt) + (IF Given # <<>> /\ Given[Len(Given)] # NL THEN 1 ELSE 0)

(* line i, counted from 0 *)
LineAt(i) ==
    SubSeq(Given,
           IF i = 0 THEN 1 ELSE NthNewline(i) + 1,
           IF i + 1 <= Cardinality(NewlinesAt) THEN NthNewline(i + 1) - 1 ELSE Len(Given))

(* midpoint.y + (i - (N - 1) / 2) * line_height, truncated *)
LineY(i) ==
    mid[2] + TruncDiv((2 * i - (LineCount - 1)) * text_height[1], 2 * text_height[2])

NonEmptyLines == {i \in 0..(LineCount - 1) : LineAt(i) # <<>>}

(* C8: every non-empty line, with its index i among all N lines of the      *)
(* text, is drawn at y = midpoint.y + (i - (N - 1) / 2) * line_height       *)
(* truncated; empty lines are not drawn and do not renumber the others; a   *)
(* text of zero lines draws nothing and N - 1 does not underflow.           *)
VerticalPlacement ==
    fulltext # None =>
        /\ text_ret = "ok"
        /\ Len(drawn) = Cardinality(NonEmptyLines)
        /\ \A i \in NonEmptyLines :
              \E k \in 1..Len(drawn) :
                  /\ drawn[k].text = LineAt(i)
                  /\ drawn[k].y = LineY(i)
                  /\ k = Cardinality({j \in NonEmptyLines : j <= i})
        /\ \A k \in 1..Len(drawn) : drawn[k].text # <<>>
        /\ LineCount = 0 => drawn = <<>>

VerticalPlacementWitness ==
    /\ fulltext # None
    /\ LineCount = 4
    /\ LineAt(0) = <<>>
    /\ LineAt(2) = <<>>
    /\ Len(drawn) = 2
    /\ drawn[1].y < mid[2]
    /\ drawn[2].y > mid[2]

VerticalPlacementNoLinesWitness ==
    /\ fulltext = Some(<<>>)
    /\ text_ret = "ok"
    /\ drawn = <<>>

(* C9 as stated: the text is wrapped only when a maximum width is supplied  *)
(* and it holds no newline; a text with a newline, or without a maximum     *)
(* width, reaches draw_text as it was given.                                *)
WrappedOnlyWithoutNewline ==
    fulltext # None =>
        fulltext[1] = IF max_width # None /\ NL \notin Range(text)
                      THEN fill(text, max_width[1])
                      ELSE text

NonBlank(s) == SelectSeq(s, LAMBDA c : c \in Letters)

(* C9 as amended: the text is wrapped whenever a maximum width is supplied, *)
(* whether or not it holds a newline: no line handed to draw_text is then   *)
(* longer than the width, the letters are those of the text in their order, *)
(* and a text whose lines all fit is left as it was; a text without a       *)
(* maximum width is never wrapped.                                          *)
WrappedWheneverWidthGiven ==
    fulltext # None =>
        /\ max_width = None => fulltext[1] = text
        /\ max_width # None =>
              /\ \A l \in Range(split(fulltext[1], NL)) : Len(l) <= max_width[1]
              /\ NonBlank(fulltext[1]) = NonBlank(text)
              /\ (\A l \in Range(split(text, NL)) : Len(l) <= max_width[1])
                    => fulltext[1] = text

WrappedWitness ==
    /\ fulltext # None
    /\ max_width = Some(2)
    /\ text = <<"a", SP, "b", NL, "a">>
    /\ fulltext[1] = <<"a", NL, "b", NL, "a">>

====
